---- MODULE Spec2Model ----
(***************************************************************************)
(* vite-plugin-pinia-auto-store: the plugin of src/src/index.ts as a state *)
(* machine.  Strings are sequences of one-character strings, so that       *)
(* endsWith, startsWith and the suffix regular expressions of the source   *)
(* are computed, not assumed.  The filesystem is one state: the            *)
(* directories that exist, the generated files with their content, and the *)
(* store directory's entries in readdir order.                             *)
(***************************************************************************)
EXTENDS Integers, Sequences, FiniteSets, TLC

VARIABLES
  options,      \* the merged options object (index.ts:23); watch is mutated by configResolved
  outputType,   \* const outputType = detectOutputType() (index.ts:43)
  root,         \* let root = process.cwd() (index.ts:26), reassigned by configResolved
  phase,        \* host lifecycle: "constructed" | "resolved" | "started"
  server,       \* configureServer: "none" (not called) | "off" (returned early) | "on"
  watchedRoot,  \* const watchedRoot = storePath() (index.ts:207)
  timer,        \* the debounce closure's timer: the handle setTimeout returned last, 0 for undefined
  timeouts,     \* host: the timeouts that are armed, handle -> time left until the callback is due
  burst,        \* history: the qualifying events since the debouncer was last at rest (events,
                \* 2 for two or more), the time since the last of them (since), the runs the
                \* debouncer has started since the last of them (runs)
  hook,         \* host: the promise the last buildStart() returned: "none" | "pending" |
                \* "fulfilled" | "rejected"
  mode,         \* host: config.mode as configResolved received it, "" before
  runs,         \* the invocations of generateConfigFiles in flight
  dirs,         \* filesystem: the directories that exist
  files,        \* filesystem: generated file path -> content
  listing,      \* filesystem: the store directory's entries, in readdir order
  changes,      \* environment: how many times the store directory has been changed
  calm          \* history: "no" | "run" (a run is alone and undisturbed so far) |
                \* "yes" (such a run has completed, and since then at most runs like it have acted)

vars == <<options, outputType, root, phase, server, watchedRoot, timer, timeouts,
          burst, hook, mode, runs, dirs, files, listing, changes, calm>>

debouncer == <<timer, timeouts, burst>>

fsState == <<dirs, files, listing>>

----------------------------------------------------------------------------
(* Bounds *)

MaxRuns == 2        \* generation runs in flight at the same time
MaxEntries == 2     \* entries the environment keeps in the store directory
MaxChanges == 2     \* changes the environment makes to the store directory
MaxTimers == 2      \* timeout handles the host hands out
TickSize == 50      \* the step in which time advances

Delay == 100        \* debounce(generateConfigFiles, 100)

Handles == 1..MaxTimers

RunIds == 1..MaxRuns

----------------------------------------------------------------------------
(* Strings *)

sTs == <<".", "t", "s">>
sJs == <<".", "j", "s">>
sDts == <<".", "d", ".", "t", "s">>
sSlash == <<"/">>
sStore == <<"S", "t", "o", "r", "e">>

EndsWith(s, suf) ==
  /\ Len(s) >= Len(suf)
  /\ SubSeq(s, Len(s) - Len(suf) + 1, Len(s)) = suf

StartsWith(s, pre) ==
  /\ Len(s) >= Len(pre)
  /\ SubSeq(s, 1, Len(pre)) = pre

\* s.replace(/<suf>$/, rep) for a literal suffix
ReplaceSuffix(s, suf, rep) ==
  IF EndsWith(s, suf) THEN SubSeq(s, 1, Len(s) - Len(suf)) \o rep ELSE s

\* s.replace(/\\/g, '/')
ReplaceBackslashes(s) ==
  [i \in 1..Len(s) |-> IF s[i] = "\\" THEN "/" ELSE s[i]]

\* the index of the last "/" of s, 0 when there is none
RECURSIVE LastSlash(_, _)
LastSlash(s, i) ==
  IF i = 0 THEN 0 ELSE IF s[i] = "/" THEN i ELSE LastSlash(s, i - 1)

\* the segments of a path between its "/" separators, empty segments dropped
RECURSIVE Segments(_)
Segments(p) ==
  IF Len(p) = 0 THEN <<>>
  ELSE LET k == LastSlash(p, Len(p))
           seg == SubSeq(p, k + 1, Len(p))
           rest == IF k = 0 THEN <<>> ELSE Segments(SubSeq(p, 1, k - 1))
       IN IF Len(seg) = 0 THEN rest ELSE Append(rest, seg)

RECURSIVE JoinSegments(_)
JoinSegments(segs) ==
  IF Len(segs) = 0 THEN <<>>
  ELSE IF Len(segs) = 1 THEN segs[1]
  ELSE segs[1] \o sSlash \o JoinSegments(Tail(segs))

----------------------------------------------------------------------------
(* node:path, posix *)

isAbsolute(p) == StartsWith(p, sSlash)

\* resolve(base, target) for an absolute base and a relative target without
\* "." or ".." segments
resolve(base, target) ==
  IF base = sSlash THEN base \o target ELSE base \o sSlash \o target

dirname(p) ==
  LET k == LastSlash(p, Len(p))
  IN IF k = 0 THEN <<".">> ELSE IF k = 1 THEN sSlash ELSE SubSeq(p, 1, k - 1)

basename(p) == SubSeq(p, LastSlash(p, Len(p)) + 1, Len(p))

RECURSIVE CommonPrefixLen(_, _)
CommonPrefixLen(a, b) ==
  IF Len(a) = 0 \/ Len(b) = 0 \/ a[1] # b[1] THEN 0
  ELSE 1 + CommonPrefixLen(Tail(a), Tail(b))

\* relative(from, to) for absolute paths
relative(from, to) ==
  LET f == Segments(from)
      t == Segments(to)
      c == CommonPrefixLen(f, t)
      ups == [i \in 1..(Len(f) - c) |-> <<".", ".">>]
  IN JoinSegments(ups \o SubSeq(t, c + 1, Len(t)))

\* every directory mkdir(d, { recursive: true }) makes sure exists
RECURSIVE Ancestors(_)
Ancestors(d) ==
  IF d = sSlash \/ d = <<".">> THEN {sSlash} ELSE {d} \cup Ancestors(dirname(d))

----------------------------------------------------------------------------
(* Configuration *)

\* glob patterns, as far as they select entries by name: <stem>.<one of exts>
\* anywhere below the root; the stem "*" stands for any name
AnyTsJs == [stem |-> <<"*">>, exts |-> {<<"t", "s">>, <<"j", "s">>}]     \* **/*.{ts,js}
AnyTs == [stem |-> <<"*">>, exts |-> {<<"t", "s">>}]                    \* **/*.ts
IndexTsJs == [stem |-> <<"i">>, exts |-> {<<"t", "s">>, <<"j", "s">>}]   \* **/index.{ts,js}

defaultOptions ==
  [storeDir |-> <<"s">>,
   include |-> {AnyTsJs},
   exclude |-> {IndexTsJs},
   output |-> <<"h", "/", "o", ".", "t", "s">>]

\* the option values a user passes; "" and "unset" stand for undefined
StoreDirs == {defaultOptions.storeDir}
Filters ==
  {[include |-> defaultOptions.include, exclude |-> defaultOptions.exclude],
   [include |-> {AnyTs}, exclude |-> {}]}
Outputs ==
  {defaultOptions.output,
   <<"h", "/", "o", ".", "j", "s">>,
   <<"o">>,
   <<"s", "/", "o", ".", "t", "s">>}
OutputTypes == {"", "ts", "js"}
WatchOptions == {"unset", "true", "false"}
Modes == {"development", "production"}

cwd == <<"/", "w">>          \* process.cwd()
ConfigRoots == {<<"/", "r">>} \* config.root

\* the entries the environment creates and removes in the store directory:
\* user.ts, user.js, index.ts and a subdirectory
StoreFiles ==
  {<<"u", ".", "t", "s">>, <<"u", ".", "j", "s">>, <<"i", ".", "t", "s">>, <<"d">>}

\* the extension of output decides even when outputType is given
detectOutputType_extensionFirst(optOutputType, output) ==
  IF EndsWith(output, sJs) THEN "js"
  ELSE IF EndsWith(output, sTs) THEN "ts"
  ELSE IF optOutputType # "" THEN optOutputType
  ELSE "ts"

detectOutputType(optOutputType, output) ==
  IF optOutputType # "" THEN optOutputType
  ELSE IF EndsWith(output, sJs) THEN "js"
  ELSE IF EndsWith(output, sTs) THEN "ts"
  ELSE "ts"

----------------------------------------------------------------------------
(* Path Resolver *)

\* a relative path is resolved against the working directory of the process
resolvePath_cwd(target) == IF isAbsolute(target) THEN target ELSE resolve(cwd, target)

resolvePath(target) == IF isAbsolute(target) THEN target ELSE resolve(root, target)

storePath == resolvePath(options.storeDir)

outputPath ==
  LET path == resolvePath(options.output)
  IN IF outputType = "js"
     THEN (IF EndsWith(path, sJs) THEN path ELSE ReplaceSuffix(path, sTs, sJs))
     ELSE (IF EndsWith(path, sTs) THEN path ELSE ReplaceSuffix(path, sJs, sTs))

\* the declaration is written over the implementation
outputDtsPath_same == outputPath

outputDtsPath == ReplaceSuffix(outputPath, sJs, sDts)

outputDir == dirname(outputPath)

relativeStorePath ==
  LET rel == ReplaceBackslashes(relative(outputDir, storePath))
  IN IF ~StartsWith(rel, <<".">>) THEN <<".", "/">> \o rel ELSE rel

----------------------------------------------------------------------------
(* Store Enumerator *)

GlobMatch(pat, id) ==
  LET b == basename(id)
  IN \E e \in pat.exts :
       /\ EndsWith(b, <<".">> \o e)
       /\ Len(b) > Len(e) + 1
       /\ (pat.stem = <<"*">> \/ b = pat.stem \o <<".">> \o e)

\* include is tested before exclude: an entry matching both is kept
createFilter_includeFirst(include, exclude, id) ==
  IF \E p \in include : GlobMatch(p, id) THEN TRUE
  ELSE IF \E p \in exclude : GlobMatch(p, id) THEN FALSE
  ELSE include = {}

\* createFilter(include, exclude): exclude first, then include; everything
\* is included when no include pattern is given
createFilter(include, exclude, id) ==
  IF \E p \in exclude : GlobMatch(p, id) THEN FALSE
  ELSE IF \E p \in include : GlobMatch(p, id) THEN TRUE
  ELSE include = {}

filter(id) == createFilter(options.include, options.exclude, id)

\* i.replace(/\.(ts|js)$/, '')
StripExtension(i) == ReplaceSuffix(ReplaceSuffix(i, sTs, <<>>), sJs, <<>>)

\* every entry of the directory is taken for a store
storeNames_unfiltered(storesPath, storeRoot) ==
  [k \in 1..Len(storesPath) |-> StripExtension(storesPath[k])]

storeNames(storesPath, storeRoot) ==
  LET Keep(i) == filter(resolve(storeRoot, i))
      kept == SelectSeq(storesPath, Keep)
  IN [k \in 1..Len(kept) |-> StripExtension(kept[k])]

----------------------------------------------------------------------------
(* Emitter: the generated text, as the lines that depend on the stores *)

\* one "import [type] <name>Store from '<rel>/<name>'" per store name
ImportLines(names, rel, typeOnly) ==
  [k \in 1..Len(names) |->
     [binding |-> names[k] \o sStore,
      from |-> rel \o sSlash \o names[k],
      typeOnly |-> typeOnly]]

\* one "<name>: <name>Store," per store name
TableLines(names) ==
  [k \in 1..Len(names) |-> [key |-> names[k], value |-> names[k] \o sStore]]

NoLines == <<>>

jsContent(names, rel) ==
  [kind |-> "js",
   imports |-> ImportLines(names, rel, FALSE),
   storeImport |-> <<rel>>,
   storeExports |-> TableLines(names),
   StoreExports |-> NoLines]

\* the declaration's table is rendered from a list that lost its last name
dtsContent_dropLast(names, rel) ==
  [kind |-> "dts",
   imports |-> ImportLines(names, rel, TRUE),
   storeImport |-> NoLines,
   storeExports |-> NoLines,
   StoreExports |-> TableLines(SubSeq(names, 1, Len(names) - 1))]

dtsContent(names, rel) ==
  [kind |-> "dts",
   imports |-> ImportLines(names, rel, TRUE),
   storeImport |-> NoLines,
   storeExports |-> NoLines,
   StoreExports |-> TableLines(names)]

tsContent(names, rel) ==
  [kind |-> "ts",
   imports |-> ImportLines(names, rel, FALSE),
   storeImport |-> <<rel>>,
   storeExports |-> TableLines(names),
   StoreExports |-> TableLines(names)]

\* the contents a run renders, in the order it writes them
Render(names, rel) ==
  IF outputType = "js" THEN <<jsContent(names, rel), dtsContent(names, rel)>>
  ELSE <<tsContent(names, rel)>>

----------------------------------------------------------------------------
(* State *)

IdleRun ==
  [pc |-> "idle", trigger |-> "", storeRoot |-> <<>>, names |-> <<>>,
   contents |-> <<>>, written |-> <<>>, error |-> ""]

Active(r) == runs[r].pc # "idle"
InFlight == {r \in RunIds : Active(r)}
FreeSlots == RunIds \ InFlight

Range(seq) == {seq[k] : k \in 1..Len(seq)}

Remove(seq, e) == SelectSeq(seq, LAMBDA x : x # e)

AllOptions ==
  {o \in [storeDir : StoreDirs, include : {f.include : f \in Filters},
          exclude : {f.exclude : f \in Filters}, output : Outputs,
          outputType : OutputTypes, watch : WatchOptions] :
     [include |-> o.include, exclude |-> o.exclude] \in Filters}

\* no qualifying event has been delivered yet
AtRest == [events |-> 0, since |-> Delay, runs |-> 0]

\* a function without one element of its domain
Without(f, x) == [y \in DOMAIN f \ {x} |-> f[y]]

Min(a, b) == IF a < b THEN a ELSE b

\* where the host's project keeps a directory or file the user names
InProject(r, target) == IF isAbsolute(target) THEN target ELSE resolve(r, target)

\* the state after piniaAutoStore(o) has returned, for o among the options
\* given, on a project whose store directory, when it exists, holds one of
\* the listings given
ConstructedWith(given, listings) ==
  /\ options \in given
  /\ outputType = detectOutputType(options.outputType, options.output)
  /\ root = cwd
  /\ phase = "constructed"
  /\ server = "none"
  /\ watchedRoot = <<>>
  /\ timer = 0
  /\ timeouts = <<>>
  /\ burst = AtRest
  /\ hook = "none"
  /\ mode = ""
  /\ runs = [r \in RunIds |-> IdleRun]
  /\ \E r \in ConfigRoots :
       \/ /\ dirs = {sSlash, r}
          /\ listing = <<>>
       \/ /\ dirs = {sSlash, r} \cup Ancestors(InProject(r, options.storeDir))
          /\ listing \in listings
  /\ files = <<>>
  /\ changes = 0
  /\ calm = "no"

\* the same, the store directory empty
Constructed(given) == ConstructedWith(given, {<<>>})

----------------------------------------------------------------------------
(* Watch Trigger *)

\* the guard of the 'add' and 'unlink' handlers (index.ts:210, 214)
Qualifies(file) ==
  ~(~StartsWith(file, watchedRoot) \/ (~EndsWith(file, sTs) /\ ~EndsWith(file, sJs)))

\* setTimeout(fn, delay): a handle that is not in use, armed with the delay
setTimeout(armed, delay) ==
  LET free == Handles \ DOMAIN armed
      h == IF free = {} THEN MaxTimers
           ELSE CHOOSE x \in free : \A y \in free : x <= y
  IN [timer |-> h, timeouts |-> (h :> delay) @@ armed]

\* clearTimeout(h): nothing happens for a handle that is not armed
clearTimeout(armed, h) == Without(armed, h)

\* the debounced function leaves the outstanding timeout armed
debounceGenerate_noClear(t, armed) == setTimeout(armed, Delay)

\* debounceGenerate(): if (timer) clearTimeout(timer); timer = setTimeout(fn, delay)
debounceGenerate(t, armed) ==
  setTimeout(IF t # 0 THEN clearTimeout(armed, t) ELSE armed, Delay)

\* the debouncer, with its history, after the watcher has delivered an event
\* for file to the 'add' or the 'unlink' handler
AfterEvent(d, file) ==
  IF server = "on" /\ Qualifies(file)
  THEN LET next == debounceGenerate(d.timer, d.timeouts)
       IN [timer |-> next.timer,
           timeouts |-> next.timeouts,
           burst |-> [events |-> IF DOMAIN d.timeouts = {} THEN 1
                                 ELSE Min(d.burst.events + 1, 2),
                      since |-> 0,
                      runs |-> 0]]
  ELSE d

\* the same after one event for each file of a sequence
RECURSIVE AfterEvents(_, _)
AfterEvents(d, fs) ==
  IF fs = <<>> THEN d ELSE AfterEvents(AfterEvent(d, Head(fs)), Tail(fs))

Debouncer == [timer |-> timer, timeouts |-> timeouts, burst |-> burst]

\* the debouncer takes the state d
Becomes(d) ==
  /\ timer' = d.timer
  /\ timeouts' = d.timeouts
  /\ burst' = d.burst

----------------------------------------------------------------------------
(* Plugin hooks *)

\* options.watch = options.watch || config.mode === 'development'
configResolved_or(configRoot, mode_) ==
  /\ phase = "constructed"
  /\ root' = configRoot
  /\ options' = [options EXCEPT !.watch =
                   IF options.watch = "true" \/ mode_ = "development" THEN "true" ELSE "false"]
  /\ phase' = "resolved"
  /\ mode' = mode_
  /\ UNCHANGED <<outputType, server, watchedRoot, debouncer, hook, runs, dirs, files,
                 listing, changes, calm>>

configResolved(configRoot, mode_) ==
  /\ phase = "constructed"
  /\ root' = configRoot
  /\ options' = [options EXCEPT !.watch =
                   IF options.watch # "unset" THEN options.watch
                   ELSE IF mode_ = "development" THEN "true" ELSE "false"]
  /\ phase' = "resolved"
  /\ mode' = mode_
  /\ UNCHANGED <<outputType, server, watchedRoot, debouncer, hook, runs, dirs, files,
                 listing, changes, calm>>

\* generateConfigFiles() is called: fs.mkdir(outputDir(), ...) is issued
generateConfigFiles(trigger) ==
  /\ FreeSlots # {}
  /\ LET r == CHOOSE x \in FreeSlots : \A y \in FreeSlots : x <= y
     IN runs' = [runs EXCEPT ![r] = [IdleRun EXCEPT !.pc = "mkdir", !.trigger = trigger]]
  /\ calm' = IF InFlight # {} THEN "no" ELSE IF calm = "yes" THEN "yes" ELSE "run"

\* the promise buildStart returns is the promise of the run it started:
\* return generateConfigFiles()
\* a failure of the run is swallowed: generateConfigFiles().catch(() => {})
Returned_swallowed(pc) ==
  IF pc \in {"done", "failed"} THEN "fulfilled" ELSE "pending"

Returned(pc) ==
  IF pc = "done" THEN "fulfilled" ELSE IF pc = "failed" THEN "rejected" ELSE "pending"

\* the host calls buildStart after configResolved and configureServer, awaits
\* it, and calls it again only for a rebuild of a build without a server
buildStart ==
  /\ phase \in {"resolved", "started"}
  /\ phase = "started" => server = "none"
  /\ \A r \in InFlight : runs[r].trigger # "buildStart"
  /\ phase' = "started"
  /\ generateConfigFiles("buildStart")
  /\ hook' = Returned("mkdir")
  /\ UNCHANGED <<options, outputType, root, server, watchedRoot, debouncer, mode,
                 dirs, files, listing, changes>>

configureServer ==
  /\ phase = "resolved"
  /\ server = "none"
  /\ IF options.watch # "true"
     THEN /\ server' = "off"
          /\ UNCHANGED watchedRoot
     ELSE /\ server' = "on"
          /\ watchedRoot' = storePath
  /\ UNCHANGED <<options, outputType, root, phase, debouncer, hook, mode, runs, dirs, files,
                 listing, changes, calm>>

\* a timeout set by debounceGenerate is due: the host calls fn()
TimerFire ==
  /\ \E h \in DOMAIN timeouts :
       /\ timeouts[h] = 0
       /\ timeouts' = Without(timeouts, h)
  /\ burst' = [burst EXCEPT !.runs = Min(@ + 1, 2)]
  /\ generateConfigFiles("watch")
  /\ UNCHANGED <<options, outputType, root, phase, server, watchedRoot, timer, hook, mode,
                 dirs, files, listing, changes>>

\* time advances by one step
Tick ==
  /\ \E h \in DOMAIN timeouts : timeouts[h] > 0
  /\ timeouts' = [h \in DOMAIN timeouts |->
                    IF timeouts[h] > TickSize THEN timeouts[h] - TickSize ELSE 0]
  /\ burst' = [burst EXCEPT !.since = Min(@ + TickSize, Delay)]
  /\ UNCHANGED <<options, outputType, root, phase, server, watchedRoot, timer, hook, mode,
                 runs, dirs, files, listing, changes, calm>>

----------------------------------------------------------------------------
(* The environment: store files come and go; the watcher reports them *)

EnvEntries == {k \in 1..Len(listing) : listing[k] \in StoreFiles}

\* a file is created in the store directory; the 'add' handler runs
WatcherAdd(f) ==
  /\ phase # "constructed"
  /\ changes < MaxChanges
  /\ storePath \in dirs
  /\ f \notin Range(listing)
  /\ Cardinality(EnvEntries) < MaxEntries
  /\ listing' = Append(listing, f)
  /\ changes' = changes + 1
  /\ Becomes(AfterEvent(Debouncer, resolve(storePath, f)))
  /\ calm' = "no"
  /\ UNCHANGED <<options, outputType, root, phase, server, watchedRoot, hook, mode, runs,
                 dirs, files>>

\* a file of the store directory is removed; the 'unlink' handler runs
WatcherUnlink(f) ==
  /\ phase # "constructed"
  /\ changes < MaxChanges
  /\ f \in Range(listing)
  /\ listing' = Remove(listing, f)
  /\ changes' = changes + 1
  /\ Becomes(AfterEvent(Debouncer, resolve(storePath, f)))
  /\ calm' = "no"
  /\ UNCHANGED <<options, outputType, root, phase, server, watchedRoot, hook, mode, runs,
                 dirs, files>>

\* the store directory is removed with everything in it; the 'unlink' handler
\* runs for each of its files
StoreRemoved ==
  /\ phase # "constructed"
  /\ changes < MaxChanges
  /\ storePath \in dirs
  /\ dirs' = dirs \ {storePath}
  /\ files' = [p \in {q \in DOMAIN files : dirname(q) # storePath} |-> files[p]]
  /\ listing' = <<>>
  /\ changes' = changes + 1
  /\ Becomes(AfterEvents(Debouncer, [k \in 1..Len(listing) |-> resolve(storePath, listing[k])]))
  /\ calm' = "no"
  /\ UNCHANGED <<options, outputType, root, phase, server, watchedRoot, hook, mode, runs>>

\* the events the watcher reports besides the coming and going of the store
\* directory's entries: a file created in a sibling directory whose name
\* begins with the store directory's name, a file created beside the store
\* directory, and a store file modified
SiblingFile == storePath \o <<"2", "/", "u", ".", "t", "s">>
OutsideFile == resolve(root, <<"u", ".", "t", "s">>)
ModifiedFile == resolve(storePath, <<"u", ".", "t", "s">>)
OtherEvents ==
  {[kind |-> "add", file |-> SiblingFile],
   [kind |-> "add", file |-> OutsideFile],
   [kind |-> "change", file |-> ModifiedFile]}

\* the watcher reports an event that leaves the store directory's entries as
\* they are; only 'add' and 'unlink' have a handler
WatcherOther(kind, file) ==
  /\ phase # "constructed"
  /\ dirname(file) = storePath => (kind = "change" /\ basename(file) \in Range(listing))
  /\ Becomes(IF kind \in {"add", "unlink"} THEN AfterEvent(Debouncer, file) ELSE Debouncer)
  /\ UNCHANGED <<options, outputType, root, phase, server, watchedRoot, hook, mode, runs,
                 dirs, files, listing, changes, calm>>

----------------------------------------------------------------------------
(* Filesystem primitives *)

\* a missing directory reads as an empty one
readdir_missingIsEmpty(path) ==
  [error |-> "", entries |-> IF path \in dirs THEN listing ELSE <<>>]

\* fs.readdir(path): the entries in directory order, or ENOENT
readdir(path) ==
  IF path \in dirs THEN [error |-> "", entries |-> listing]
  ELSE [error |-> "ENOENT", entries |-> <<>>]

\* fs.writeFile(path, content): the whole file is replaced; a file that is new
\* in the store directory becomes an entry of it, and the watcher reports it
writeFile(path, content) ==
  /\ files' = (path :> content) @@ files
  /\ IF dirname(path) = storePath /\ basename(path) \notin Range(listing)
     THEN listing' = Append(listing, basename(path))
     ELSE UNCHANGED listing
  /\ Becomes(IF path \notin DOMAIN files THEN AfterEvent(Debouncer, path) ELSE Debouncer)

----------------------------------------------------------------------------
(* generateConfigFiles, one step per awaited operation *)

\* await fs.mkdir(outputDir(), { recursive: true }) has succeeded
MkdirDone(r) ==
  /\ runs[r].pc = "mkdir"
  /\ dirs' = dirs \cup Ancestors(outputDir)
  /\ runs' = [runs EXCEPT ![r].pc = "readdir", ![r].storeRoot = storePath]
  /\ UNCHANGED <<options, outputType, root, phase, server, watchedRoot, debouncer, hook,
                 mode, files, listing, changes, calm>>

\* await fs.readdir(storeRoot) has settled; on success the names and the
\* contents are computed and the first write is issued
ReaddirDone(r) ==
  /\ runs[r].pc = "readdir"
  /\ LET storeRoot == runs[r].storeRoot
         storesPath == readdir(storeRoot)
         names == storeNames(storesPath.entries, storeRoot)
     IN IF storesPath.error # ""
        THEN /\ runs' = [runs EXCEPT ![r].pc = "failed", ![r].error = storesPath.error]
             /\ calm' = "no"
        ELSE /\ runs' = [runs EXCEPT ![r].pc = "write1", ![r].names = names,
                                     ![r].contents = Render(names, relativeStorePath)]
             /\ UNCHANGED calm
  /\ UNCHANGED <<options, outputType, root, phase, server, watchedRoot, debouncer, hook,
                 mode, dirs, files, listing, changes>>

\* the pc after the first write (index.ts:134-135, 182)
AfterWrite1 == IF outputType = "js" THEN "write2" ELSE "done"

\* await fs.writeFile(outputPath(), jsContent | tsContent) has succeeded
Write1Done(r) ==
  /\ runs[r].pc = "write1"
  /\ writeFile(outputPath, runs[r].contents[1])
  /\ runs' = [runs EXCEPT ![r].pc = AfterWrite1,
                          ![r].written = Append(@, outputPath)]
  /\ UNCHANGED <<options, outputType, root, phase, server, watchedRoot, hook, mode, dirs,
                 changes, calm>>

\* await fs.writeFile(outputDtsPath(), dtsContent) has succeeded
Write2Done(r) ==
  /\ runs[r].pc = "write2"
  /\ writeFile(outputDtsPath, runs[r].contents[2])
  /\ runs' = [runs EXCEPT ![r].pc = "done",
                          ![r].written = Append(@, outputDtsPath)]
  /\ UNCHANGED <<options, outputType, root, phase, server, watchedRoot, hook, mode, dirs,
                 changes, calm>>

\* the awaited operation fails (permissions, disk): the promise rejects; a
\* missing store directory is ReaddirDone's ENOENT
IoError(r) ==
  /\ runs[r].pc \in {"mkdir", "readdir", "write1", "write2"}
  /\ runs[r].pc = "readdir" => storePath \in dirs
  /\ runs' = [runs EXCEPT ![r].pc = "failed", ![r].error = "EIO"]
  /\ calm' = "no"
  /\ UNCHANGED <<options, outputType, root, phase, server, watchedRoot, debouncer, hook,
                 mode, dirs, files, listing, changes>>

\* the promise of generateConfigFiles() settles
Settle(r) ==
  /\ runs[r].pc \in {"done", "failed"}
  /\ calm' = IF runs[r].pc = "done" /\ calm # "no" THEN "yes" ELSE "no"
  /\ runs' = [runs EXCEPT ![r] = IdleRun]
  /\ hook' = IF runs[r].trigger = "buildStart" THEN Returned(runs[r].pc) ELSE hook
  /\ UNCHANGED <<options, outputType, root, phase, server, watchedRoot, debouncer, mode,
                 dirs, files, listing, changes>>

----------------------------------------------------------------------------
(* Specifications *)

Generation ==
  \/ \E r \in RunIds : MkdirDone(r)
  \/ \E r \in RunIds : ReaddirDone(r)
  \/ \E r \in RunIds : Write1Done(r)
  \/ \E r \in RunIds : Write2Done(r)
  \/ \E r \in RunIds : Settle(r)

Failure == \E r \in RunIds : IoError(r)

Environment ==
  \/ \E f \in StoreFiles : WatcherAdd(f)
  \/ \E f \in StoreFiles : WatcherUnlink(f)
  \/ StoreRemoved

\* a build (vite build, with or without --watch): the host never calls
\* configureServer; every combination of options
Init == Constructed({o \in AllOptions : o.watch = "false"})

Next ==
  \/ \E configRoot \in ConfigRoots, m \in Modes : configResolved(configRoot, m)
  \/ buildStart
  \/ Environment
  \/ Generation
  \/ Failure

Spec == Init /\ [][Next]_vars

\* a development server (vite serve)
ServeOptions ==
  {o \in AllOptions :
     /\ [include |-> o.include, exclude |-> o.exclude] =
          [include |-> defaultOptions.include, exclude |-> defaultOptions.exclude]
     /\ o.outputType = ""}

InitServe == Constructed(ServeOptions)

NextServe ==
  \/ \E configRoot \in ConfigRoots, m \in Modes : configResolved(configRoot, m)
  \/ configureServer
  \/ buildStart
  \/ TimerFire
  \/ Tick
  \/ Environment
  \/ Generation
  \/ Failure

SpecServe == InitServe /\ [][NextServe]_vars

\* a development server on a filesystem whose operations fail only because
\* the store directory is missing
NextReliable ==
  \/ \E configRoot \in ConfigRoots, m \in Modes : configResolved(configRoot, m)
  \/ configureServer
  \/ buildStart
  \/ TimerFire
  \/ Tick
  \/ Environment
  \/ Generation

SpecReliable == InitServe /\ [][NextReliable]_vars

\* a development server in development mode, of a project that generates
\* javascript into a directory of its own; one store file comes and goes and
\* the watcher reports other files too
DebounceOptions == {o \in ServeOptions : o.output = <<"h", "/", "o", ".", "j", "s">>}
DebounceFiles == {<<"u", ".", "t", "s">>}

InitDebounce == Constructed(DebounceOptions)

NextDebounce ==
  \/ \E configRoot \in ConfigRoots : configResolved(configRoot, "development")
  \/ configureServer
  \/ buildStart
  \/ TimerFire
  \/ Tick
  \/ \E f \in DebounceFiles : WatcherAdd(f)
  \/ \E f \in DebounceFiles : WatcherUnlink(f)
  \/ \E e \in OtherEvents : WatcherOther(e.kind, e.file)
  \/ Generation

SpecDebounce == InitDebounce /\ [][NextDebounce]_vars

\* the same project, the server started in either mode; the watcher reports
\* the store file only
NextWatch ==
  \/ \E configRoot \in ConfigRoots, m \in Modes : configResolved(configRoot, m)
  \/ configureServer
  \/ buildStart
  \/ TimerFire
  \/ Tick
  \/ \E f \in DebounceFiles : WatcherAdd(f)
  \/ \E f \in DebounceFiles : WatcherUnlink(f)
  \/ Generation

SpecWatch == InitDebounce /\ [][NextWatch]_vars

\* a build of projects that keep the store directory and the output in
\* different places relative to each other: store directory 's', '.s' and
\* '/a/s'; output in a subdirectory, beside the store directory, inside it,
\* and at an absolute path
PathStoreDirs == {defaultOptions.storeDir, <<".", "s">>, <<"/", "a", "/", "s">>}
PathOutputs ==
  {defaultOptions.output,
   <<"o", ".", "t", "s">>,
   <<"s", "/", "o", ".", "t", "s">>,
   <<"/", "a", "/", "o", ".", "j", "s">>}
PathListings ==
  {<<>>, <<<<"u", ".", "t", "s">>>>, <<<<"i", ".", "t", "s">>, <<"d">>>>}

PathOptions ==
  [storeDir : PathStoreDirs, include : {defaultOptions.include},
   exclude : {defaultOptions.exclude}, output : PathOutputs,
   outputType : {""}, watch : {"false"}]

InitPaths == ConstructedWith(PathOptions, PathListings)

NextPaths ==
  \/ \E configRoot \in ConfigRoots, m \in Modes : configResolved(configRoot, m)
  \/ buildStart
  \/ Generation

SpecPaths == InitPaths /\ [][NextPaths]_vars

----------------------------------------------------------------------------
(* Properties *)

Keys(table) == {table[k].key : k \in 1..Len(table)}
KeyList(table) == [k \in 1..Len(table) |-> table[k].key]
Succeeded == {r \in RunIds : runs[r].pc = "done"}
Rendered == {r \in RunIds : runs[r].pc \in {"write1", "write2", "done"}}

\* how many lines of a sequence satisfy a test
Count(lines, Test(_)) == Cardinality({k \in 1..Len(lines) : Test(lines[k])})

\* C1: in javascript mode, the implementation a successful run has written and
\* the declaration it has written carry the same set of lookup-table keys.
C1_TablesAgree ==
  \A r \in Succeeded :
    outputType = "js" =>
      /\ runs[r].written = <<outputPath, outputDtsPath>>
      /\ runs[r].contents[1].kind = "js"
      /\ runs[r].contents[2].kind = "dts"
      /\ Keys(runs[r].contents[1].storeExports) = Keys(runs[r].contents[2].StoreExports)

\* a javascript run has succeeded with two store names in its tables
C1_Witness ==
  \E r \in Succeeded :
    /\ outputType = "js"
    /\ Cardinality(Keys(runs[r].contents[1].storeExports)) = 2

\* C3: every identifier of a run appears exactly once as an import binding and
\* exactly once as a lookup-table key in every artifact the run writes.
C3_ExactlyOnce ==
  \A r \in Succeeded :
    \A c \in Range(runs[r].contents), n \in Range(runs[r].names) :
      /\ Count(c.imports, LAMBDA l : l.binding = n \o sStore) = 1
      /\ c.kind # "dts" => Count(c.storeExports, LAMBDA l : l.key = n) = 1
      /\ c.kind # "js" => Count(c.StoreExports, LAMBDA l : l.key = n) = 1

\* the entries a filter with these patterns selects, as the specification
\* words it: matching include, not matching exclude
Selected(entry) ==
  /\ \E p \in options.include : GlobMatch(p, resolve(storePath, entry))
  /\ ~\E p \in options.exclude : GlobMatch(p, resolve(storePath, entry))

Identifier(entry) ==
  IF EndsWith(entry, sTs) \/ EndsWith(entry, sJs)
  THEN SubSeq(entry, 1, Len(entry) - 3) ELSE entry

RECURSIVE Identifiers(_)
Identifiers(entries) ==
  IF entries = <<>> THEN <<>>
  ELSE IF Selected(Head(entries))
       THEN <<Identifier(Head(entries))>> \o Identifiers(Tail(entries))
       ELSE Identifiers(Tail(entries))

\* C5: the identifiers a run takes from the store directory are its entries
\* that match include and do not match exclude, extension stripped, in
\* directory order.
C5_Enumerates ==
  [][\A r \in RunIds :
       (runs[r].pc = "readdir" /\ runs'[r].pc = "write1")
         => /\ runs'[r].names = Identifiers(listing)
            /\ KeyList(runs'[r].contents[1].storeExports) = Identifiers(listing)]_vars

\* a run holds an identifier while the directory holds an entry matching
\* include and exclude, or an entry not matching include
C5_Witness ==
  \E r \in Rendered :
    /\ runs[r].names = Identifiers(listing)
    /\ runs[r].names # <<>>
    /\ \E e \in Range(listing) :
         \/ /\ \E p \in options.include : GlobMatch(p, resolve(storePath, e))
            /\ \E p \in options.exclude : GlobMatch(p, resolve(storePath, e))
         \/ ~\E p \in options.include : GlobMatch(p, resolve(storePath, e))

\* C4: a run that follows a completed run, with nothing else having acted
\* since that run began, leaves the filesystem as the completed run left it.
C4_Idempotent ==
  [][(calm = "yes" /\ calm' = "yes") => fsState' = fsState]_vars

\* C6: outputType is "ts" or "js" in every state: the outputType option when
\* it is given, else "js" for an output ending in .js, else "ts".
C6_OutputKind ==
  /\ outputType \in {"ts", "js"}
  /\ options.outputType # "" => outputType = options.outputType
  /\ (options.outputType = "" /\ EndsWith(options.output, sJs)) => outputType = "js"
  /\ (options.outputType = "" /\ EndsWith(options.output, sTs)) => outputType = "ts"
  /\ (options.outputType = "" /\ ~EndsWith(options.output, sJs)
        /\ ~EndsWith(options.output, sTs)) => outputType = "ts"

\* a run is in flight under an explicit outputType that the extension of
\* output contradicts
C6_Witness ==
  /\ InFlight # {}
  /\ options.outputType = "ts"
  /\ EndsWith(options.output, sJs)
  /\ outputType = "ts"

\* C7: the resolved output path, where a run writes its first artifact, ends
\* in .ts when outputType is "ts" and in .js when it is "js".
C7_ExtensionForced ==
  \A r \in RunIds :
    runs[r].written # <<>> =>
      /\ runs[r].written[1] = outputPath
      /\ outputType = "ts" => EndsWith(outputPath, sTs)
      /\ outputType = "js" => EndsWith(outputPath, sJs)

\* the path beside p that carries the declaration suffix
DtsSibling(p) ==
  (IF EndsWith(p, sTs) \/ EndsWith(p, sJs) THEN SubSeq(p, 1, Len(p) - 3) ELSE p) \o sDts

\* C8: in typescript mode a successful run has written the resolved output
\* path and nothing else, and no declaration-suffixed sibling ever exists; in
\* javascript mode with an output ending in .js the implementation and its
\* declaration-suffixed sibling both exist once a run has succeeded.
C8_ArtifactSet ==
  /\ outputType = "ts" =>
       /\ \A r \in Succeeded : runs[r].written = <<outputPath>>
       /\ DOMAIN files \subseteq {outputPath}
       /\ DtsSibling(outputPath) \notin DOMAIN files
  /\ (outputType = "js" /\ EndsWith(options.output, sJs)) =>
       \A r \in Succeeded :
         /\ Len(runs[r].written) = 2
         /\ Range(runs[r].written) \subseteq DOMAIN files
         /\ {outputPath, DtsSibling(outputPath)} \subseteq DOMAIN files
         /\ outputPath # DtsSibling(outputPath)
         /\ files[outputPath].kind = "js"
         /\ files[DtsSibling(outputPath)].kind = "dts"

\* a javascript run with an output ending in .js has succeeded
C8_Witness ==
  /\ outputType = "js"
  /\ EndsWith(options.output, sJs)
  /\ Succeeded # {}

\* C9: a run whose readdir finds the store directory missing fails with
\* ENOENT, has written no file, and its failing leaves every file as it was.
C9_MissingStore ==
  [][\A r \in RunIds :
       (runs[r].pc = "readdir" /\ storePath \notin dirs /\ runs'[r] # runs[r])
         => /\ runs'[r].pc = "failed"
            /\ runs'[r].error = "ENOENT"
            /\ runs'[r].written = <<>>
            /\ files' = files]_vars

\* a run has failed with ENOENT while an artifact of an earlier run exists
C9_Witness ==
  /\ \E r \in RunIds : runs[r].pc = "failed" /\ runs[r].error = "ENOENT"
  /\ files # <<>>

\* C10: a run that has failed has written none of its artifacts.
C10_AllOrNothing ==
  \A r \in RunIds : runs[r].pc = "failed" => runs[r].written = <<>>

\* C2: in javascript mode, whenever no run is in flight, the implementation
\* and the declaration on disk carry the same identifier list.
C2_NoDriftOnDisk ==
  (/\ outputType = "js"
   /\ InFlight = {}
   /\ {outputPath, outputDtsPath} \subseteq DOMAIN files
   /\ outputPath # outputDtsPath)
    => KeyList(files[outputPath].storeExports) = KeyList(files[outputDtsPath].StoreExports)

\* a module specifier that is relative: it begins with ./ or ../ and holds no
\* backslash
RelativeSpecifier(from) ==
  /\ StartsWith(from, <<".", "/">>) \/ StartsWith(from, <<".", ".", "/">>)
  /\ "\\" \notin Range(from)

\* C11: every import a run renders, the per-store imports and the import of
\* the store directory itself, names its module by a specifier that begins
\* with ./ or ../ and holds no backslash.
C11_RelativeImports ==
  \A r \in Rendered :
    \A c \in Range(runs[r].contents) :
      /\ \A l \in Range(c.imports) : RelativeSpecifier(l.from)
      /\ \A from \in Range(c.storeImport) : RelativeSpecifier(from)

\* the project root the host resolves (config.root)
HostRoot == CHOOSE r \in ConfigRoots : TRUE

\* a path without its .ts or .js extension
Stem(p) == IF EndsWith(p, sTs) \/ EndsWith(p, sJs) THEN SubSeq(p, 1, Len(p) - 3) ELSE p

\* C12: a run reads the store directory and writes its first artifact where
\* the host's project has them: storeDir and output as given when they are
\* absolute, below config.root when they are relative, never below the
\* working directory of the process.
C12_ResolvedAgainstRoot ==
  \A r \in RunIds :
    /\ runs[r].pc \in {"readdir", "write1", "write2", "done"} =>
         /\ runs[r].storeRoot = InProject(HostRoot, options.storeDir)
         /\ dirname(InProject(HostRoot, options.output)) \in dirs
    /\ runs[r].written # <<>> =>
         Stem(runs[r].written[1]) = Stem(InProject(HostRoot, options.output))

\* one run has written below config.root for a relative output, another
\* configuration's run has read an absolute store directory
C12_Witness ==
  \E r \in Succeeded :
    /\ HostRoot # cwd
    /\ \/ ~isAbsolute(options.output) /\ isAbsolute(options.storeDir)
       \/ isAbsolute(options.output) /\ ~isAbsolute(options.storeDir)
    /\ runs[r].names # <<>>

\* a content without a per-store import and without a key in either table
EmptyAccessor(c) ==
  /\ c.imports = <<>>
  /\ c.storeExports = <<>>
  /\ c.StoreExports = <<>>

\* C14: a run that has read an existing store directory none of whose
\* entries survives the filter has not failed, and what it renders and
\* what it has written has no per-store import and no key in the dispatch
\* table or in the lookup-table type.
C14_EmptyStore ==
  \A r \in RunIds :
    (/\ runs[r].pc \notin {"idle", "mkdir", "readdir"}
     /\ storePath \in dirs
     /\ Identifiers(listing) = <<>>)
      => /\ runs[r].pc \in {"write1", "write2", "done"}
         /\ runs[r].error = ""
         /\ runs[r].names = <<>>
         /\ \A c \in Range(runs[r].contents) : EmptyAccessor(c)
         /\ \A path \in Range(runs[r].written) :
              path \in DOMAIN files /\ EmptyAccessor(files[path])
         /\ runs[r].pc = "done" =>
              runs[r].written \in {<<outputPath>>, <<outputPath, outputDtsPath>>}

\* a run has succeeded on a store directory that holds entries, none of
\* which survives the filter
C14_Witness ==
  \E r \in Succeeded :
    /\ listing # <<>>
    /\ Identifiers(listing) = <<>>
    /\ runs[r].written # <<>>

\* C19: in javascript mode a run that has made both of its writes has written
\* two different paths, and the implementation it wrote first is still the
\* implementation.
C19_DistinctArtifacts ==
  \A r \in RunIds :
    (outputType = "js" /\ Len(runs[r].written) = 2) =>
      /\ runs[r].written[1] # runs[r].written[2]
      /\ outputDtsPath # outputPath

\* C20: the mkdir of a run that finds the store directory missing, and so
\* goes on to fail at readdir with ENOENT, creates no directory; and the step
\* in which the run fails changes neither directories nor files.
C20_MissingStoreNoDirectory ==
  [][\A r \in RunIds :
       /\ (runs[r].pc = "mkdir" /\ runs'[r].pc = "readdir" /\ storePath \notin dirs')
            => dirs' = dirs
       /\ (runs[r].pc = "readdir" /\ runs'[r].error = "ENOENT")
            => fsState' = fsState]_vars

\* C13: once the host has resolved its configuration, watch is what the user
\* gave when the user gave it, and else true exactly in development mode;
\* while it is false, configureServer has subscribed to nothing, no timeout
\* has been armed and no run was started by a filesystem event; the watcher
\* is subscribed to only while it is true.
C13_WatchOnlyWhenEnabled ==
  /\ [][(phase = "constructed" /\ phase' # "constructed") =>
          options'.watch = IF options.watch # "unset" THEN options.watch
                           ELSE IF mode' = "development" THEN "true" ELSE "false"]_vars
  /\ []((phase # "constructed" /\ options.watch = "false") =>
          /\ server # "on"
          /\ timer = 0
          /\ DOMAIN timeouts = {}
          /\ \A r \in RunIds : runs[r].trigger # "watch")
  /\ [](server = "on" => options.watch = "true")

\* in development mode with watch given as false, configureServer has
\* returned and a store file has been added since
C13_Witness ==
  /\ mode = "development"
  /\ options.watch = "false"
  /\ server = "off"
  /\ listing # <<>>

\* C15: at most one timeout is armed, the one the closure's timer refers to,
\* and it is due one delay after the last qualifying event; after a
\* qualifying event a timeout stays armed until the debouncer starts a run; it
\* starts a run no earlier than one delay after the last qualifying event,
\* with no timeout left armed, and starts one run only.
C15_Debounce ==
  /\ [](/\ Cardinality(DOMAIN timeouts) <= 1
        /\ DOMAIN timeouts \subseteq {timer}
        /\ \A h \in DOMAIN timeouts : timeouts[h] = Delay - burst.since
        /\ burst.runs <= 1
        /\ (burst.events > 0 /\ burst.runs = 0) => DOMAIN timeouts # {})
  /\ [][\A r \in RunIds :
          (runs[r].pc = "idle" /\ runs'[r].trigger = "watch")
            => /\ burst.since >= Delay
               /\ burst'.runs = 1
               /\ DOMAIN timeouts' = {}]_vars

\* a burst of two or more qualifying events has started its one run
C15_Witness ==
  /\ burst.events = 2
  /\ burst.runs = 1
  /\ \E r \in RunIds : runs[r].trigger = "watch"

\* the entries by which two listings of the store directory differ
Changed(before, after) ==
  (Range(before) \ Range(after)) \cup (Range(after) \ Range(before))

\* C16: with the watcher subscribed to, a step arms a timeout only if it adds
\* to or removes from the store directory an entry ending in .ts or .js, and
\* every such step leaves a timeout armed with the whole delay.
C16_QualifyingOnly ==
  [][server = "on" =>
       LET qualifying == \E f \in Changed(listing, listing') :
                            EndsWith(f, sTs) \/ EndsWith(f, sJs)
           scheduled == \E h \in DOMAIN timeouts' :
                           /\ timeouts'[h] = Delay
                           /\ h \notin DOMAIN timeouts \/ timeouts[h] < Delay
       IN /\ scheduled => qualifying
          /\ qualifying => \E h \in DOMAIN timeouts' : timeouts'[h] = Delay]_vars

\* the runs in flight that buildStart started
OfBuildStart == {r \in InFlight : runs[r].trigger = "buildStart"}

\* C17: while the promise of buildStart is pending, one run that buildStart
\* started is in flight, and none is once it has settled; buildStart starts
\* one run; its promise settles in the step in which that run's promise
\* settles, fulfilled after the run's last write and rejected after the run
\* has failed.
C17_BuildStartAwaitsRun ==
  /\ [](Cardinality(OfBuildStart) = IF hook = "pending" THEN 1 ELSE 0)
  /\ [][(hook # "pending" /\ hook' = "pending") =>
          \E r \in RunIds :
            /\ runs[r].pc = "idle"
            /\ runs'[r].pc = "mkdir"
            /\ runs'[r].trigger = "buildStart"
            /\ \A q \in RunIds \ {r} : runs'[q] = runs[q]]_vars
  /\ [][(hook = "pending" /\ hook' # "pending") =>
          \E r \in OfBuildStart :
            /\ runs'[r].pc = "idle"
            /\ \/ /\ runs[r].pc = "done"
                  /\ Len(runs[r].written) = Len(runs[r].contents)
                  /\ hook' = "fulfilled"
               \/ /\ runs[r].pc = "failed"
                  /\ hook' = "rejected"]_vars

\* the promise of buildStart has been rejected after an earlier one was
\* fulfilled
C17_Witness ==
  /\ hook = "rejected"
  /\ files # <<>>

\* C18: whenever the watcher is subscribed to, buildStart has been called,
\* the store directory exists, no timeout is armed and no run is in flight
\* (so that nothing more happens unless another event comes), the artifacts
\* on disk list the identifiers of the store directory's listing.
C18_ConvergedWhenQuiet ==
  (/\ server = "on"
   /\ phase = "started"
   /\ storePath \in dirs
   /\ DOMAIN timeouts = {}
   /\ InFlight = {})
    => /\ outputPath \in DOMAIN files
       /\ KeyList(files[outputPath].storeExports) = Identifiers(listing)
       /\ outputType = "js" =>
            /\ outputDtsPath \in DOMAIN files
            /\ KeyList(files[outputDtsPath].StoreExports) = Identifiers(listing)

====
